---- MODULE Spec2Model ----
(***************************************************************************)
(* The STL upload relay: the POST /upload and POST /upload-batch handlers  *)
(* of src/index.js (OAuth variant) and src/unnamed/part_000 (service       *)
(* account variant), and the Google Drive calls they issue.                *)
(*                                                                         *)
(* A handler is an async function: the code between two awaits runs        *)
(* atomically, so every action below is one such segment.  A Drive call is *)
(* appended to `calls` with outcome "pending" when it is issued and is     *)
(* completed (ok / error) by the action that resumes the handler.          *)
(*                                                                         *)
(* Request bodies are JSON values of the shapes of the data model: a field *)
(* is absent (undefined) or a string, possibly empty; `files` is absent,   *)
(* a non-array value or an array of file objects.  The folder name (built  *)
(* from the clock and customerName) has no influence on the control flow   *)
(* and is not modelled.                                                    *)
(***************************************************************************)
EXTENDS Integers, Sequences, FiniteSets, TLC

VARIABLES
  variant,    \* which source file is deployed: "oauth" (index.js) or "service" (part_000)
  route,      \* "none", "upload" or "batch"
  body,       \* req.body of the request being handled
  pc,         \* the await the handler is suspended at, "idle" or "done"
  folderId,   \* customerFolderId / uploadFolderId
  idx,        \* position of fileObj in files (batch loop), 0 outside the loop
  file,       \* file.data of the last successful drive.files.create
  results,    \* the results array of the batch handler
  calls,      \* every Drive call issued so far, in issue order
  response,   \* the HTTP response sent (status 0: none yet)
  sent        \* number of responses sent on res

vars == <<variant, route, body, pc, folderId, idx, file, results, calls, response, sent>>

-----------------------------------------------------------------------------
(* Bounds *)

MaxFiles == 2

-----------------------------------------------------------------------------
(* JavaScript values of the request body *)

Undefined == [tag |-> "undefined", s |-> <<>>]
Str(s) == [tag |-> "string", s |-> s]

\* !v is false exactly for a non-empty string (undefined and "" are falsy)
Truthy(v) == v.tag = "string" /\ v.s # <<>>

DataUrlPrefix ==
  <<"d","a","t","a",":","a","p","p","l","i","c","a","t","i","o","n","/",
    "o","c","t","e","t","-","s","t","r","e","a","m",";","b","a","s","e","6","4",",">>

RawZero == <<"A","A","A","A">>
RawABC == <<"Q","U","J","D">>
RawPadded == <<"Q","U","I","=">>
ShortPrefix == <<"d","a","t","a",":",";","b","a","s","e","6","4",",">>

Names == { Undefined, Str(<<>>), Str(<<"a">>), Str(<<"b">>) }

Payloads ==
  { Undefined, Str(<<>>), Str(RawZero), Str(DataUrlPrefix \o RawZero),
    Str(RawABC), Str(ShortPrefix \o RawPadded) }

FileObjs ==
  { [fileName |-> Str(<<"a">>), fileData |-> Str(RawZero)],
    [fileName |-> Str(<<"b">>), fileData |-> Str(DataUrlPrefix \o RawZero)],
    [fileName |-> Undefined, fileData |-> Str(RawABC)],
    [fileName |-> Str(<<"a">>), fileData |-> Str(<<>>)] }

SeqsUpTo(S, n) == UNION { [1..k -> S] : k \in 0..n }

UploadBodies == [fileName : Names, fileData : Payloads]

BatchBodies ==
  { [files |-> [tag |-> "undefined", items |-> <<>>]],
    [files |-> [tag |-> "string", items |-> <<>>]] }
  \cup { [files |-> [tag |-> "array", items |-> fs]] : fs \in SeqsUpTo(FileObjs, MaxFiles) }

\* error.message of a rejected Drive call
Messages == { "", "Quota exceeded" }

-----------------------------------------------------------------------------
(* Buffer.from(string, 'base64') *)

B64Chars ==
  <<"A","B","C","D","E","F","G","H","I","J","K","L","M","N","O","P","Q","R","S","T",
    "U","V","W","X","Y","Z","a","b","c","d","e","f","g","h","i","j","k","l","m","n",
    "o","p","q","r","s","t","u","v","w","x","y","z","0","1","2","3","4","5","6","7",
    "8","9","+","/">>

\* the 6-bit value of a character; 64 for a character outside the alphabets
Unbase64(c) ==
  IF c = "-" THEN 62
  ELSE IF c = "_" THEN 63
  ELSE IF \E k \in 1..Len(B64Chars) : B64Chars[k] = c
       THEN (CHOOSE k \in 1..Len(B64Chars) : B64Chars[k] = c) - 1
       ELSE 64

\* the legal characters' values up to the first '=': illegal ones are skipped
RECURSIVE Sextets(_)
Sextets(s) ==
  IF s = <<>> \/ Head(s) = "=" THEN <<>>
  ELSE IF Unbase64(Head(s)) < 64 THEN <<Unbase64(Head(s))>> \o Sextets(Tail(s))
  ELSE Sextets(Tail(s))

RECURSIVE Octets(_)
Octets(v) ==
  IF Len(v) < 2 THEN <<>>
  ELSE IF Len(v) = 2 THEN << v[1] * 4 + v[2] \div 16 >>
  ELSE IF Len(v) = 3 THEN << v[1] * 4 + v[2] \div 16, (v[2] % 16) * 16 + v[3] \div 4 >>
  ELSE << v[1] * 4 + v[2] \div 16, (v[2] % 16) * 16 + v[3] \div 4, (v[3] % 4) * 64 + v[4] >>
       \o Octets(SubSeq(v, 5, Len(v)))

Base64Decode(s) == Octets(Sextets(s))

Includes(s, c) == \E k \in 1..Len(s) : s[k] = c

IndexOf(s, c) == CHOOSE k \in 1..Len(s) : s[k] = c /\ \A j \in 1..(k - 1) : s[j] # c

\* s.split(',')[1]: the segment between the first comma and the next one
SplitSecond(s) ==
  LET rest == SubSeq(s, IndexOf(s, ",") + 1, Len(s))
  IN IF Includes(rest, ",") THEN SubSeq(rest, 1, IndexOf(rest, ",") - 1) ELSE rest

\* the buffer /upload streams to Drive
UploadBuffer(fileData) == Base64Decode(fileData.s)

\* the buffer /upload-batch streams to Drive
BatchBuffer(v, fileData) ==
  IF v = "oauth"
  THEN Base64Decode(IF Includes(fileData.s, ",") THEN SplitSecond(fileData.s) ELSE fileData.s)
  ELSE Base64Decode(fileData.s)

-----------------------------------------------------------------------------
(* Google Drive: identifiers, links and calls *)

\* process.env.GOOGLE_DRIVE_FOLDER_ID; Drive gives every object it creates a
\* fresh identifier, here the position of the creating call in `calls`
FOLDER_ID == 0

WebViewLink(id) == [kind |-> "webViewLink", id |-> id]
WebContentLink(id) == [kind |-> "webContentLink", id |-> id]
FolderUrl(id) == [kind |-> "drive/folders", id |-> id]

CreateFolderCall ==
  [op |-> "createFolder", file |-> 0, parents |-> <<FOLDER_ID>>,
   outcome |-> "pending", message |-> ""]

CreateFileCall(i, name, parent, bytes) ==
  [op |-> "createFile", file |-> i, name |-> name, parents |-> <<parent>>,
   bytes |-> bytes, outcome |-> "pending", message |-> ""]

GetFileCall(i, fileId) ==
  [op |-> "getFile", file |-> i, fileId |-> fileId,
   outcome |-> "pending", message |-> ""]

\* mutation: the permission grant is left out, the metadata is fetched at once
PermissionCallSkipped(i, fileId) == GetFileCall(i, fileId)

PermissionCall(i, fileId) ==
  [op |-> "createPermission", file |-> i, fileId |-> fileId, role |-> "reader",
   type |-> "anyone", outcome |-> "pending", message |-> ""]

\* mutation: the permission grant is not awaited before the metadata fetch
AfterCreateOkNoAwait(cs, i, fileId) ==
  Append(Append(cs, PermissionCall(i, fileId)), GetFileCall(i, fileId))

\* file created: await drive.permissions.create(...) is the only call issued
AfterCreateOk(cs, i, fileId) == Append(cs, PermissionCall(i, fileId))

\* the awaited call settles: it is the last one issued
Settle(cs, outcome, msg) ==
  [cs EXCEPT ![Len(cs)].outcome = outcome, ![Len(cs)].message = msg]

Awaiting(op) == calls # <<>> /\ calls[Len(calls)].op = op /\ calls[Len(calls)].outcome = "pending"

-----------------------------------------------------------------------------
(* The handlers' decisions *)

\* if (!fileName || !fileData) return res.status(400)
UploadValid(b) == Truthy(b.fileName) /\ Truthy(b.fileData)

\* mutation: the empty array is not rejected
BatchValidNoLength(b) == b.files.tag = "array"

\* if (!files || !Array.isArray(files) || files.length === 0) return res.status(400)
BatchValid(b) == b.files.tag = "array" /\ Len(b.files.items) # 0

\* mutation: the folder id is taken from the create-folder call whatever its outcome
FolderAfterCreateNoFallback(ok, newId) == newId

\* let customerFolderId = FOLDER_ID; try { ... = folder.data.id } catch { log }
FolderAfterCreate(ok, newId) == IF ok THEN newId ELSE FOLDER_ID

\* if (!fileName || !fileData) continue;
Processable(fileObj) == Truthy(fileObj.fileName) /\ Truthy(fileObj.fileData)

\* the next fileObj of the for...of loop that is not skipped, Len + 1 at the end
NextIndex(items, k) ==
  IF \E j \in (k + 1)..Len(items) : Processable(items[j])
  THEN CHOOSE j \in (k + 1)..Len(items) :
         Processable(items[j]) /\ \A m \in (k + 1)..(j - 1) : ~Processable(items[m])
  ELSE Len(items) + 1

\* mutation: the first failure ends the loop (fail-fast)
BreakAfterFailure(items, k) == Len(items) + 1

\* where the loop goes on after catch (fileErr) { results.push(...) }
NextAfterFailure(items, k) == NextIndex(items, k)

PushSuccess(v, rs, f, id) ==
  IF v = "oauth"
  THEN Append(rs, [success |-> TRUE, fileName |-> f.name, viewLink |-> WebViewLink(id),
                   downloadLink |-> WebContentLink(id)])
  ELSE Append(rs, [success |-> TRUE, fileName |-> f.name, viewLink |-> WebViewLink(id)])

\* mutation: the failure entry is put in front (unshift instead of push)
PushFailureFirst(rs, fileObj, msg) ==
  <<[success |-> FALSE, fileName |-> fileObj.fileName.s, error |-> msg]>> \o rs

PushFailure(rs, fileObj, msg) ==
  Append(rs, [success |-> FALSE, fileName |-> fileObj.fileName.s, error |-> msg])

BadRequest(text) == [status |-> 400, body |-> [error |-> text]]

\* mutation: the error body is sent without the 500 status
ErrorResponseNoStatus(msg, fallback) ==
  [status |-> 200, body |-> [error |-> IF msg = "" THEN fallback ELSE msg]]

\* res.status(500).json({ error: error.message || fallback })
ErrorResponse(msg, fallback) ==
  [status |-> 500, body |-> [error |-> IF msg = "" THEN fallback ELSE msg]]

UploadSuccess(f, id) ==
  [status |-> 200,
   body |-> [success |-> TRUE, fileId |-> f.id, fileName |-> f.name,
             viewLink |-> WebViewLink(id), downloadLink |-> WebContentLink(id)]]

BatchSuccess(link, rs) ==
  [status |-> 200, body |-> [success |-> TRUE, folderLink |-> link, files |-> rs]]

\* the buffer streamed for the file at position i of the request
BufferOf(v, r, b, i) ==
  IF r = "upload" THEN UploadBuffer(b.fileData)
  ELSE BatchBuffer(v, b.files.items[i].fileData)

-----------------------------------------------------------------------------
(* The handlers, one action per segment between two awaits *)

Init ==
  /\ variant \in {"oauth", "service"}
  /\ route = "none"
  /\ body = [files |-> [tag |-> "undefined", items |-> <<>>]]
  /\ pc = "idle"
  /\ folderId = FOLDER_ID
  /\ idx = 0
  /\ file = [id |-> FOLDER_ID, name |-> <<>>]
  /\ results = <<>>
  /\ calls = <<>>
  /\ response = [status |-> 0]
  /\ sent = 0

Respond(r) ==
  /\ response' = r
  /\ sent' = sent + 1
  /\ pc' = "done"

\* the for...of loop resumes at position j with results rs and calls cs; past the
\* last file the handler builds the batch response
ContinueLoop(j, rs, cs, fid) ==
  LET items == body.files.items IN
  /\ results' = rs
  /\ idx' = j
  /\ IF j <= Len(items)
     THEN /\ calls' = Append(cs, CreateFileCall(j, items[j].fileName.s, fid,
                                                BatchBuffer(variant, items[j].fileData)))
          /\ pc' = "awaitCreate"
          /\ UNCHANGED <<response, sent>>
     ELSE IF variant = "oauth"
     THEN /\ calls' = cs
          /\ Respond(BatchSuccess(FolderUrl(FOLDER_ID), rs))
     ELSE /\ calls' = Append(cs, GetFileCall(0, fid))
          /\ pc' = "awaitFolderInfo"
          /\ UNCHANGED <<response, sent>>

ReceiveUpload(b) ==
  /\ pc = "idle"
  /\ route' = "upload"
  /\ body' = b
  /\ IF ~UploadValid(b)
     THEN /\ Respond(BadRequest("Missing fileName or fileData"))
          /\ UNCHANGED calls
     ELSE /\ calls' = Append(calls, CreateFolderCall)
          /\ pc' = "awaitFolder"
          /\ UNCHANGED <<response, sent>>
  /\ UNCHANGED <<variant, folderId, idx, file, results>>

ReceiveBatch(b) ==
  /\ pc = "idle"
  /\ route' = "batch"
  /\ body' = b
  /\ IF ~BatchValid(b)
     THEN /\ Respond(BadRequest("No files provided"))
          /\ UNCHANGED calls
     ELSE /\ calls' = Append(calls, CreateFolderCall)
          /\ pc' = "awaitFolder"
          /\ UNCHANGED <<response, sent>>
  /\ UNCHANGED <<variant, folderId, idx, file, results>>

\* after the folder try/catch: /upload creates the file, /upload-batch enters the loop
AfterFolder(fid, cs) ==
  /\ folderId' = fid
  /\ IF route = "upload"
     THEN /\ calls' = Append(cs, CreateFileCall(1, body.fileName.s, fid,
                                                UploadBuffer(body.fileData)))
          /\ pc' = "awaitCreate"
          /\ idx' = 1
          /\ UNCHANGED <<results, response, sent>>
     ELSE ContinueLoop(NextIndex(body.files.items, 0), results, cs, fid)
  /\ UNCHANGED <<variant, route, body, file>>

CreateFolderOk ==
  /\ pc = "awaitFolder"
  /\ Awaiting("createFolder")
  /\ AfterFolder(FolderAfterCreate(TRUE, Len(calls)), Settle(calls, "ok", ""))

CreateFolderFail(msg) ==
  /\ pc = "awaitFolder"
  /\ Awaiting("createFolder")
  /\ AfterFolder(FolderAfterCreate(FALSE, Len(calls)), Settle(calls, "error", msg))

\* a rejected create-file, permission or metadata call of the current file
FileFailed(msg) ==
  LET cs == Settle(calls, "error", msg) IN
  /\ IF route = "upload"
     THEN /\ calls' = cs
          /\ Respond(ErrorResponse(msg, "Upload failed"))
          /\ UNCHANGED <<idx, results>>
     ELSE ContinueLoop(NextAfterFailure(body.files.items, idx),
                       PushFailure(results, body.files.items[idx], msg), cs, folderId)
  /\ UNCHANGED <<variant, route, body, folderId, file>>

CreateFileOk ==
  /\ pc = "awaitCreate"
  /\ Awaiting("createFile")
  /\ file' = [id |-> Len(calls), name |-> calls[Len(calls)].name]
  /\ calls' = AfterCreateOk(Settle(calls, "ok", ""), idx, Len(calls))
  /\ pc' = "awaitPerm"
  /\ UNCHANGED <<variant, route, body, folderId, idx, results, response, sent>>

CreateFileFail(msg) ==
  /\ pc = "awaitCreate"
  /\ Awaiting("createFile")
  /\ FileFailed(msg)

PermissionOk ==
  /\ pc = "awaitPerm"
  /\ Awaiting("createPermission")
  /\ calls' = Append(Settle(calls, "ok", ""), GetFileCall(idx, file.id))
  /\ pc' = "awaitGet"
  /\ UNCHANGED <<variant, route, body, folderId, idx, file, results, response, sent>>

PermissionFail(msg) ==
  /\ pc = "awaitPerm"
  /\ Awaiting("createPermission")
  /\ FileFailed(msg)

GetFileOk ==
  /\ pc = "awaitGet"
  /\ Awaiting("getFile")
  /\ LET cs == Settle(calls, "ok", "")
         id == calls[Len(calls)].fileId
     IN IF route = "upload"
        THEN /\ calls' = cs
             /\ Respond(UploadSuccess(file, id))
             /\ UNCHANGED <<idx, results>>
        ELSE ContinueLoop(NextIndex(body.files.items, idx),
                          PushSuccess(variant, results, file, id), cs, folderId)
  /\ UNCHANGED <<variant, route, body, folderId, file>>

GetFileFail(msg) ==
  /\ pc = "awaitGet"
  /\ Awaiting("getFile")
  /\ FileFailed(msg)

\* part_000 only: the folder's webViewLink is fetched after the loop
FolderInfoOk ==
  /\ pc = "awaitFolderInfo"
  /\ Awaiting("getFile")
  /\ calls' = Settle(calls, "ok", "")
  /\ Respond(BatchSuccess(WebViewLink(calls[Len(calls)].fileId), results))
  /\ UNCHANGED <<variant, route, body, folderId, idx, file, results>>

FolderInfoFail(msg) ==
  /\ pc = "awaitFolderInfo"
  /\ Awaiting("getFile")
  /\ calls' = Settle(calls, "error", msg)
  /\ Respond(ErrorResponse(msg, "Batch upload failed"))
  /\ UNCHANGED <<variant, route, body, folderId, idx, file, results>>

Next ==
  \/ \E b \in UploadBodies : ReceiveUpload(b)
  \/ \E b \in BatchBodies : ReceiveBatch(b)
  \/ CreateFolderOk
  \/ \E msg \in Messages : CreateFolderFail(msg)
  \/ CreateFileOk
  \/ \E msg \in Messages : CreateFileFail(msg)
  \/ PermissionOk
  \/ \E msg \in Messages : PermissionFail(msg)
  \/ GetFileOk
  \/ \E msg \in Messages : GetFileFail(msg)
  \/ FolderInfoOk
  \/ \E msg \in Messages : FolderInfoFail(msg)

Spec == Init /\ [][Next]_vars

-----------------------------------------------------------------------------
(* Vocabulary of the properties *)

Items == body.files.items
Done == pc = "done"
IsBatch == route = "batch" /\ body.files.tag = "array" /\ Len(Items) # 0
CallIds == 1..Len(calls)
Failed == { k \in CallIds : calls[k].outcome = "error" }
Pending == { k \in CallIds : calls[k].outcome = "pending" }
FileOps == { "createFile", "createPermission", "getFile" }

\* a call made for one file of the request (the folder-level calls carry file 0)
PerFile(k) == calls[k].op \in FileOps /\ calls[k].file > 0

\* a field the request does not carry: absent, or the empty string
Missing(v) == v.tag = "undefined" \/ Len(v.s) = 0
HasBoth(fileObj) == ~Missing(fileObj.fileName) /\ ~Missing(fileObj.fileData)

\* the position in results of the entry of the file at position i
Pos(i) == Cardinality({ j \in 1..i : HasBoth(Items[j]) })

\* the payload of the file a create-file call uploads
PayloadOf(k) == IF route = "upload" THEN body.fileData.s ELSE Items[calls[k].file].fileData.s

\* a payload that starts with a data-URL prefix "data:...,"
HasDataUrlPrefix(s) ==
  Len(s) >= 5 /\ SubSeq(s, 1, 5) = <<"d","a","t","a",":">> /\ Includes(s, ",")

\* what follows the data-URL prefix (everything up to and including the first comma)
AfterPrefix(s) == IF Includes(s, ",") THEN SubSeq(s, IndexOf(s, ",") + 1, Len(s)) ELSE s

\* the destination of the request: the created folder, or the parent when creation failed
Destination == IF calls[1].outcome = "ok" THEN 1 ELSE FOLDER_ID

OkCall(op, i) == \E k \in CallIds : calls[k].op = op /\ calls[k].file = i /\ calls[k].outcome = "ok"

-----------------------------------------------------------------------------
(* C1 *)

\* the batch response holds one entry per input file, in input order, exactly one
\* of them a failure carrying an error field
OneFailureReported ==
  /\ response.status = 200
  /\ Len(response.body.files) = Len(Items)
  /\ \E i \in 1..Len(Items) :
       /\ response.body.files[i].success = FALSE
       /\ "error" \in DOMAIN response.body.files[i]
       /\ \A j \in 1..Len(Items) : j # i => response.body.files[j].success = TRUE
  /\ \A i \in 1..Len(Items) : response.body.files[i].fileName = Items[i].fileName.s

\* C1 as stated: for a batch of N files, each with fileName and fileData, in which
\* exactly one remote call fails, the response holds exactly N entries in input
\* order, exactly one with success:false and an error field, the others success:true.
C1_AsStated ==
  (Done /\ IsBatch /\ (\A i \in 1..Len(Items) : HasBoth(Items[i])) /\ Cardinality(Failed) = 1)
    => OneFailureReported

\* C1 amended: the same, when the one remote call that fails is the create-file,
\* permission-grant or metadata-fetch call of one of the files (not the
\* create-folder call, nor the fetch of the folder's link).
C1_OnePerFileFailure ==
  (Done /\ IsBatch /\ (\A i \in 1..Len(Items) : HasBoth(Items[i]))
     /\ Cardinality(Failed) = 1 /\ (\A k \in Failed : PerFile(k)))
    => OneFailureReported

C1_Witness ==
  /\ Done /\ IsBatch /\ Len(Items) = 2
  /\ HasBoth(Items[1]) /\ HasBoth(Items[2]) /\ Items[1].fileName # Items[2].fileName
  /\ Cardinality(Failed) = 1 /\ (\A k \in Failed : PerFile(k) /\ calls[k].file = 2)
  /\ response.status = 200

-----------------------------------------------------------------------------
(* C2 *)

\* C2: the batch route answers every request that passes validation with HTTP 200,
\* top-level success:true and the per-file results, whichever per-file calls fail;
\* an error response is never produced once files have been processed.
C2_AlwaysOk ==
  (Done /\ IsBatch)
    => /\ response.status = 200
       /\ response.body.success = TRUE
       /\ response.body.files = results

-----------------------------------------------------------------------------
(* C3 *)

\* every failed per-file call of a batch is recorded as that file's success:false entry
FailureRecorded ==
  \A k \in Failed :
    (route = "batch" /\ PerFile(k))
      => /\ Len(results) >= Pos(calls[k].file)
         /\ results[Pos(calls[k].file)].success = FALSE
         /\ results[Pos(calls[k].file)].fileName = Items[calls[k].file].fileName.s
         /\ results[Pos(calls[k].file)].error = calls[k].message

Created(j) == \E m \in CallIds : calls[m].op = "createFile" /\ calls[m].file = j

\* C3 as stated: a failed create-file, permission or metadata call of one file is
\* recorded as that file's success:false entry, the loop is not ended early, and
\* for every later file of the batch the create-file call is issued.
C3_AsStated ==
  /\ FailureRecorded
  /\ (Done /\ IsBatch)
       => /\ idx = Len(Items) + 1
          /\ \A k \in Failed : PerFile(k) =>
               \A j \in (calls[k].file + 1)..Len(Items) : Created(j)

\* C3 amended: the same, the create-file call being issued for every later file that
\* has both a fileName and a fileData (a file lacking one is skipped without a call
\* and without a result entry).
C3_FailureIsolated ==
  /\ FailureRecorded
  /\ (Done /\ IsBatch)
       => /\ idx = Len(Items) + 1
          /\ \A k \in Failed : PerFile(k) =>
               \A j \in (calls[k].file + 1)..Len(Items) : HasBoth(Items[j]) => Created(j)

C3_Witness ==
  /\ Done /\ IsBatch /\ Len(Items) = 2
  /\ \E k \in Failed : PerFile(k) /\ calls[k].file = 1 /\ calls[k].op = "createPermission"
  /\ Created(2)
  /\ Len(results) = 2 /\ results[1].success = FALSE

-----------------------------------------------------------------------------
(* C4 *)

FolderFailed == calls # <<>> /\ calls[1].op = "createFolder" /\ calls[1].outcome = "error"

\* C4: when the create-folder call fails, in either route, the request goes on: the
\* file upload is issued with the configured parent folder as its parent, and when
\* the remaining calls succeed the request ends in a success response.
C4_FolderDegrades ==
  FolderFailed =>
    /\ pc # "awaitFolder" =>
         \/ \E k \in CallIds : calls[k].op = "createFile"
         \/ route = "batch" /\ \A i \in 1..Len(Items) : ~HasBoth(Items[i])
    /\ \A k \in CallIds : calls[k].op = "createFile" => calls[k].parents = <<FOLDER_ID>>
    /\ (Done /\ Failed = {1}) => (response.status = 200 /\ response.body.success = TRUE)

C4_Witness ==
  /\ FolderFailed /\ Done /\ Failed = {1}
  /\ route = "batch" /\ Len(results) = 2
  /\ response.status = 200

-----------------------------------------------------------------------------
(* C5 *)

Rejected(text) ==
  /\ Done
  /\ response = [status |-> 400, body |-> [error |-> text]]
  /\ calls = <<>>

Proceeds == response.status # 400 /\ calls # <<>> /\ calls[1].op = "createFolder"

\* C5: /upload answers 400 when fileName or fileData is missing, /upload-batch
\* answers 400 when files is missing, not an array or an empty array, in both cases
\* without any storage call; every other request proceeds to the storage calls.
C5_Validation ==
  /\ route = "upload" =>
       IF Missing(body.fileName) \/ Missing(body.fileData)
       THEN Rejected("Missing fileName or fileData") ELSE Proceeds
  /\ route = "batch" =>
       IF body.files.tag # "array" \/ Len(body.files.items) = 0
       THEN Rejected("No files provided") ELSE Proceeds

C5_Witness ==
  /\ route = "batch" /\ body.files.tag = "array" /\ Len(body.files.items) = 0
  /\ response.status = 400 /\ calls = <<>>

-----------------------------------------------------------------------------
(* C6 *)

\* C6: a valid /upload request is answered 200 with success:true, the file
\* identifier, the name and both links when create-file, permission grant and
\* metadata fetch all succeed, and 500 with the error message when one of them
\* fails; exactly one response is sent.
C6_UploadResponse ==
  /\ sent <= 1
  /\ Done => sent = 1
  /\ (Done /\ route = "upload" /\ ~Missing(body.fileName) /\ ~Missing(body.fileData)) =>
       IF OkCall("createFile", 1) /\ OkCall("createPermission", 1) /\ OkCall("getFile", 1)
       THEN \E k \in CallIds :
              /\ calls[k].op = "createFile"
              /\ response = [status |-> 200,
                             body |-> [success |-> TRUE, fileId |-> k,
                                       fileName |-> body.fileName.s,
                                       viewLink |-> WebViewLink(k),
                                       downloadLink |-> WebContentLink(k)]]
       ELSE \E k \in Failed :
              /\ PerFile(k)
              /\ response.status = 500
              /\ response.body.error =
                   (IF calls[k].message = "" THEN "Upload failed" ELSE calls[k].message)

C6_Witness ==
  /\ Done /\ route = "upload" /\ response.status = 500
  /\ \E k \in Failed : calls[k].op = "getFile" /\ calls[k].message # ""

-----------------------------------------------------------------------------
(* C7 *)

\* C7: in every upload path, a payload carrying a data-URL prefix is sent to storage
\* as the bytes of the raw base64 string that follows the prefix.
C7_PrefixIgnored ==
  \A k \in CallIds :
    (calls[k].op = "createFile" /\ HasDataUrlPrefix(PayloadOf(k)))
      => calls[k].bytes = Base64Decode(AfterPrefix(PayloadOf(k)))

-----------------------------------------------------------------------------
(* C8 *)

\* the result entry of the file at position i, when it is a success, rests on a
\* successful create-file, permission grant and metadata fetch of that file
SuccessAfterAll(i) ==
  (HasBoth(Items[i]) /\ Len(results) >= Pos(i) /\ results[Pos(i)].success = TRUE)
    => OkCall("createFile", i) /\ OkCall("createPermission", i) /\ OkCall("getFile", i)

\* C8: per file, in both routes, the calls are issued in the order create-file,
\* permission grant (reader / anyone), metadata fetch, each only after the one
\* before it succeeded, and a success result only after all three succeeded.
C8_CallOrder ==
  /\ \A k \in CallIds :
       /\ calls[k].op = "createPermission" =>
            /\ k > 1 /\ calls[k - 1].op = "createFile" /\ calls[k - 1].outcome = "ok"
            /\ calls[k - 1].file = calls[k].file /\ calls[k].fileId = k - 1
            /\ calls[k].role = "reader" /\ calls[k].type = "anyone"
       /\ (calls[k].op = "getFile" /\ calls[k].file > 0) =>
            /\ k > 2 /\ calls[k - 1].op = "createPermission" /\ calls[k - 1].outcome = "ok"
            /\ calls[k - 1].file = calls[k].file /\ calls[k].fileId = calls[k - 1].fileId
       /\ (calls[k].op = "createFile" /\ calls[k].outcome # "ok") =>
            \A m \in CallIds : calls[m].file = calls[k].file =>
                                 calls[m].op \notin {"createPermission", "getFile"}
  /\ IsBatch => \A i \in 1..Len(Items) : SuccessAfterAll(i)
  /\ (route = "upload" /\ response.status = 200) =>
       OkCall("createFile", 1) /\ OkCall("createPermission", 1) /\ OkCall("getFile", 1)

C8_Witness ==
  /\ Done /\ IsBatch /\ Len(Items) = 2
  /\ Len(results) = 2 /\ results[1].success = TRUE /\ results[2].success = TRUE
  /\ OkCall("getFile", 2)

-----------------------------------------------------------------------------
(* C9 *)

\* C9: within one batch request at most one remote call is outstanding at any time,
\* the files are taken in input order, and no call for a file is issued before the
\* processing of every file before it has ended in a recorded success or failure.
C9_Sequential ==
  route = "batch" =>
    /\ Cardinality(Pending) <= 1
    /\ \A k \in Pending : k = Len(calls)
    /\ \A k, m \in CallIds : (k < m /\ calls[k].file > 0 /\ calls[m].file > 0)
                               => calls[k].file <= calls[m].file
    /\ \A k \in CallIds : calls[k].file > 0 =>
         \A i \in 1..(calls[k].file - 1) : HasBoth(Items[i]) => Len(results) >= Pos(i)

C9_Witness ==
  /\ IsBatch /\ Len(Items) = 2
  /\ Cardinality(Pending) = 1
  /\ \E k \in Pending : calls[k].file = 2 /\ calls[k].op = "createPermission"
  /\ Len(results) = 1

-----------------------------------------------------------------------------
(* C10 *)

\* C10: in a batch the destination folder is created at most once, every file is
\* uploaded with that one destination as its parent, and the folderLink of the
\* response designates that same destination.
C10_OneDestination ==
  IsBatch =>
    /\ Cardinality({ k \in CallIds : calls[k].op = "createFolder" }) <= 1
    /\ \A k \in CallIds : calls[k].op = "createFile" => calls[k].parents = <<Destination>>
    /\ (Done /\ response.status = 200) => response.body.folderLink.id = Destination

====
